---- MODULE Spec2Model ----
(***************************************************************************)
(* grank: ranks assigned independently within groups                       *)
(* (src/grank/__init__.py).                                                *)
(*                                                                         *)
(* An ndarray is a record [shape, dtype, data], data being the elements in *)
(* C order.  Index arrays hold 0-based indices, as numpy's do.  A float64  *)
(* element x is held as the integer 2*x (ranks are integers or             *)
(* half-integers), and NaN as the code NaN; an int64 element is held as    *)
(* itself.                                                                 *)
(***************************************************************************)
EXTENDS Integers, Sequences, FiniteSets

\* ------------------------------------------------------------------ bounds
MaxLen == 3
MaxVal == 2
MaxSize == 2

\* --------------------------------------------------------- numpy's values
NaN == -1

None == [shape |-> <<>>, dtype |-> "NoneType", data |-> <<>>]

\* A name that was never assigned (reading it raises UnboundLocalError).
Unbound == [shape |-> <<>>, dtype |-> "unbound", data |-> <<>>]

Methods == {"ordinal", "min", "max", "average", "dense"}

Array(shape, dtype, data) == [shape |-> shape, dtype |-> dtype, data |-> data]

Ndim(x) == Len(x.shape)

RECURSIVE Prod(_)
Prod(s) == IF s = <<>> THEN 1 ELSE Head(s) * Prod(Tail(s))

Size(x) == Prod(x.shape)

\* arange(n)
Arange(n) == [k \in 1..n |-> k - 1]

\* s[idx] for an index array idx
Take(s, idx) == [k \in 1..Len(idx) |-> s[idx[k] + 1]]

\* out = np.empty(n); out[idx] = vals   (idx a permutation of 0..n-1)
Scatter(n, idx, vals) ==
    [i \in 1..n |-> vals[CHOOSE k \in 1..Len(idx) : idx[k] = i - 1]]

\* s[1:] and s[:-1]
DropFirst(s) == SubSeq(s, 2, Len(s))
DropLast(s) == SubSeq(s, 1, Len(s) - 1)

\* cumsum of a boolean array
Cumsum(b) == [k \in 1..Len(b) |-> Cardinality({j \in 1..k : b[j]})]

\* flatnonzero of a boolean array: the indices of its True elements, ascending
Flatnonzero(b) ==
    LET nz == {j \in 1..Len(b) : b[j]}
    IN  [k \in 1..Cardinality(nz) |->
            (CHOOSE j \in nz : Cardinality({i \in nz : i < j}) = k - 1) - 1]

\* A faulty variant of SortLt: NaN sorts before every number.
SortLtNanFirst(x, y) == IF x = NaN THEN y # NaN ELSE y # NaN /\ x < y

\* The order numpy's sorts put on elements: NaN after every number.
SortLt(x, y) == IF y = NaN THEN x # NaN ELSE x # NaN /\ x < y

\* x != y element-wise: NaN differs from everything, itself included.
Ne(x, y) == x = NaN \/ y = NaN \/ x # y

\* np.lexsort((a, g)): a stable sort, g the primary key and a the secondary.
LexBefore(a, g, i, j) ==
    \/ g[i] < g[j]
    \/ g[i] = g[j] /\ SortLt(a[i], a[j])
    \/ g[i] = g[j] /\ ~SortLt(a[i], a[j]) /\ ~SortLt(a[j], a[i]) /\ i < j

Lexsort(a, g) ==
    LET n == Len(a)
        pos == [i \in 1..n |-> Cardinality({j \in 1..n : LexBefore(a, g, j, i)})]
    IN  [k \in 1..n |-> (CHOOSE i \in 1..n : pos[i] = k - 1) - 1]

\* --------------------------------------------------------- the core stages
\* line 27: np.zeros_like(a)
ZerosLike(a) == Array(a.shape, a.dtype, [k \in 1..Len(a.data) |-> 0])

\* lines 26-28: the group keys the call ranks within
GroupsOf(a, g) == IF g = None THEN ZerosLike(a) ELSE g

\* A faulty variant of SameShape: the sizes are compared, not the shapes.
SameSize(a, g) == Prod(a.shape) = Prod(g.shape)

\* line 29: the condition of the assertion
SameShape(a, g) == a.shape = g.shape

\* lines 31-34: np.isnan(a), or None for a dtype isnan does not take
NanIndexes(a) ==
    IF a.dtype = "str" THEN None
    ELSE Array(a.shape, "bool", [k \in 1..Len(a.data) |-> a.data[k] = NaN])

\* line 40: flag = sorted_g[:-1] != sorted_g[1:]
Flag(sg) == [k \in 1..(Len(sg) - 1) |-> DropLast(sg)[k] # DropFirst(sg)[k]]

\* line 41: slices = np.r_[0, np.flatnonzero(flag) + 1, len(a)]
Slices(flg, n) ==
    LET nz == Flatnonzero(flg)
    IN  <<0>> \o [k \in 1..Len(nz) |-> nz[k] + 1] \o <<n>>

\* lines 42, 48: start = slices[:-1]; offset = start
Start(flg, n) == DropLast(Slices(flg, n))

\* lines 45-46: g2inv[sorter] = np.cumsum(np.r_[False, flag])
G2inv(srt, flg) == Scatter(Len(srt), srt, Cumsum(<<FALSE>> \o flg))

\* A faulty variant of OrdinalRank: the group's start offset is not subtracted.
OrdinalRankNoOffset(n, srt, offset, g2i) ==
    LET rank == Scatter(n, srt, Arange(n))
    IN  [i \in 1..n |-> rank[i] + 1]

\* lines 51-54: method ordinal
OrdinalRank(n, srt, offset, g2i) ==
    LET rank == Scatter(n, srt, Arange(n))
        off == Take(offset, g2i)
    IN  [i \in 1..n |-> rank[i] - off[i] + 1]

\* A faulty variant of X2inv: the sort permutation is used where its inverse is meant.
X2invAsSorter(srt) == srt

\* lines 57-58: x2inv[sorter] = np.arange(sorter.size)
X2inv(srt) == Scatter(Len(srt), srt, Arange(Len(srt)))

\* A faulty variant of Obs: obs[start] = True is left out, so that a tie run crosses
\* a group boundary.
ObsNoGroupBreak(sa, start) ==
    <<TRUE>> \o [k \in 1..(Len(sa) - 1) |-> Ne(DropFirst(sa)[k], DropLast(sa)[k])]

\* lines 60-61: obs = np.r_[True, sorted_a[1:] != sorted_a[:-1]]; obs[start] = True
Obs(sa, start) ==
    LET raw == <<TRUE>> \o [k \in 1..(Len(sa) - 1) |-> Ne(DropFirst(sa)[k], DropLast(sa)[k])]
    IN  [k \in 1..Len(raw) |-> raw[k] \/ \E s \in 1..Len(start) : start[s] = k - 1]

\* line 62: dense = obs.cumsum()
Dense(obs) == Cumsum(obs)

\* A faulty variant of DenseRank: the group's start offset is subtracted instead of
\* its starting dense id.
DenseRankStartOffset(srt, obs, start, g2i) ==
    LET d == Take(Dense(obs), X2inv(srt))
        off == Take(start, g2i)
    IN  [i \in 1..Len(srt) |-> d[i] - off[i]]

\* lines 65-66: method dense
DenseRank(srt, obs, start, g2i) ==
    LET dense == Dense(obs)
        dense_offset == Take(dense, start)
        d == Take(dense, X2inv(srt))
        off == Take(dense_offset, g2i)
    IN  [i \in 1..Len(srt) |-> d[i] - off[i] + 1]

\* line 68: count = np.r_[np.flatnonzero(obs), len(obs)]
Count(obs) == Flatnonzero(obs) \o <<Len(obs)>>

\* line 70: max_rank = count[dense][x2inv] - offset[g2inv]
MaxRank(srt, obs, offset, g2i) ==
    LET hi == Take(Take(Count(obs), Dense(obs)), X2inv(srt))
        off == Take(offset, g2i)
    IN  [i \in 1..Len(srt) |-> hi[i] - off[i]]

\* line 73: min_rank = count[dense - 1][x2inv] - offset[g2inv] + 1
MinRank(srt, obs, offset, g2i) ==
    LET dense == Dense(obs)
        dm == [k \in 1..Len(obs) |-> dense[k] - 1]
        lo == Take(Take(Count(obs), dm), X2inv(srt))
        off == Take(offset, g2i)
    IN  [i \in 1..Len(srt) |-> lo[i] - off[i] + 1]

\* A faulty variant of AvgRank: the mean is taken by integer division.
AvgRankFloorDiv(srt, obs, offset, g2i) ==
    LET max_rank == MaxRank(srt, obs, offset, g2i)
        min_rank == MinRank(srt, obs, offset, g2i)
    IN  [i \in 1..Len(srt) |-> 2 * ((max_rank[i] + min_rank[i]) \div 2)]

\* line 76: avg_rank = 0.5 * (max_rank + min_rank), a float64 array: the
\* element (max + min) / 2 is held as max + min.
AvgRank(srt, obs, offset, g2i) ==
    LET max_rank == MaxRank(srt, obs, offset, g2i)
        min_rank == MinRank(srt, obs, offset, g2i)
    IN  [i \in 1..Len(srt) |-> max_rank[i] + min_rank[i]]

\* lines 50-83: the Rank Assigner; result stays unbound for any other method
RankOf(mth, n, srt, sa, start, g2i) ==
    CASE mth = "ordinal" -> Array(<<n>>, "int64", OrdinalRank(n, srt, start, g2i))
      [] mth = "dense" -> Array(<<n>>, "int64", DenseRank(srt, Obs(sa, start), start, g2i))
      [] mth = "max" -> Array(<<n>>, "int64", MaxRank(srt, Obs(sa, start), start, g2i))
      [] mth = "min" -> Array(<<n>>, "int64", MinRank(srt, Obs(sa, start), start, g2i))
      [] mth = "average" -> Array(<<n>>, "float64", AvgRank(srt, Obs(sa, start), start, g2i))
      [] OTHER -> Unbound

\* line 86: result.astype("float64")
AsFloat64(r) ==
    IF r.dtype = "float64" THEN r
    ELSE Array(r.shape, "float64", [k \in 1..Len(r.data) |-> 2 * r.data[k]])

\* lines 86-87: the Missing-Value Patcher
Patched(r, nan) ==
    LET f == AsFloat64(r)
    IN  Array(f.shape, f.dtype, [k \in 1..Len(f.data) |-> IF nan.data[k] THEN NaN ELSE f.data[k]])

\* -------------------------------------------------------------- outcomes
Pending == [kind |-> "pending", exc |-> "", line |-> 0, value |-> None]
Returned(v) == [kind |-> "return", exc |-> "", line |-> 0, value |-> v]
Raised(e, l) == [kind |-> "raise", exc |-> e, line |-> l, value |-> None]

\* ------------------------------------------------------- the axis wrapper
\* line 22: the dtype of the empty result
EmptyDtype(mth) == IF mth = "average" THEN "float64" ELSE "int64"

\* np.apply_along_axis (line 24): the number of 1-D slices of arr along ax
NumSlices(arr, ax) == Size(arr) \div arr.shape[ax + 1]

\* the flat index (0-based) of element t of slice k of an array of this shape
FlatIndex(shape, ax, k, t) ==
    IF Len(shape) = 1 THEN t
    ELSE IF ax = 0 THEN t * shape[2] + k ELSE k * shape[2] + t

\* the k-th 1-D slice of arr along ax
SliceOf(arr, ax, k) ==
    Array(<<arr.shape[ax + 1]>>, arr.dtype,
          [t \in 1..arr.shape[ax + 1] |-> arr.data[FlatIndex(arr.shape, ax, k, t - 1) + 1]])

\* the output of apply_along_axis: every slice's result put back along ax
Assemble(arr, ax, buff) ==
    Array(arr.shape, buff[1].dtype,
          [f \in 1..Size(arr) |->
              LET kt == CHOOSE kt \in (0..(Len(buff) - 1)) \X (0..(arr.shape[ax + 1] - 1)) :
                            FlatIndex(arr.shape, ax, kt[1], kt[2]) = f - 1
              IN  buff[kt[1] + 1].data[kt[2] + 1]])

\* np.lexsort((a, g)) sorts along the last axis: one argsort per row
LexsortLastAxis(a, g) ==
    IF Ndim(a) = 1 THEN Lexsort(a.data, g.data)
    ELSE LET c == a.shape[2]
             row(x, i) == SubSeq(x.data, (i - 1) * c + 1, i * c)
         IN  [f \in 1..Size(a) |->
                 Lexsort(row(a, ((f - 1) \div c) + 1), row(g, ((f - 1) \div c) + 1))[((f - 1) % c) + 1]]

\* lines 26-88 as one function: the outcome of grank(x, grp, mth) with
\* axis None and x of one dimension
Grank(x, grp, mth) ==
    LET gg == GroupsOf(x, grp)
        nan == NanIndexes(x)
        srt == Lexsort(x.data, gg.data)
        sa == Take(x.data, srt)
        sg == Take(gg.data, srt)
        flg == Flag(sg)
        st == Start(flg, x.shape[1])
        g2i == G2inv(srt, flg)
        r == RankOf(mth, x.shape[1], srt, sa, st, g2i)
    IN  IF ~SameShape(x, gg) THEN Raised("AssertionError", 29)
        ELSE IF r = Unbound
        THEN Raised("UnboundLocalError", IF nan # None THEN 86 ELSE 88)
        ELSE Returned(IF nan # None THEN Patched(r, nan) ELSE r)

\* -------------------------------------------------------------- the state
VARIABLES
    a, g, method, axis,   \* the arguments (and locals a, g) of the running call
    frame,                \* the apply_along_axis call the running call is made from
    pc,                   \* the next statement of the running call
    trace,                \* the statements executed so far
    nan_indexes, sorter, sorted_a, sorted_g, flag, start, g2inv, result,
    ret,                  \* the outcome of the outermost call
    args                  \* the arguments of the outermost call

vars == <<a, g, method, axis, frame, pc, trace,
          nan_indexes, sorter, sorted_a, sorted_g, flag, start, g2inv, result, ret, args>>

locals == <<nan_indexes, sorter, sorted_a, sorted_g, flag, start, g2inv, result>>

NoFrame == [active |-> FALSE, a |-> None, g |-> None, axis |-> 0, k |-> 0, buff |-> <<>>]

\* ------------------------------------------------------------- the inputs
Values(dtype) == IF dtype = "float64" THEN (0..(MaxVal - 1)) \cup {NaN} ELSE 0..(MaxVal - 1)

\* two group keys
GroupKeys == {0, 1}

Arrays(shape, dtype, S) == {Array(shape, dtype, d) : d \in [1..Prod(shape) -> S]}

\* one-dimensional inputs of the core
CoreValues ==
    UNION {Arrays(<<n>>, dt, Values(dt)) : n \in 0..MaxLen, dt \in {"float64", "int64", "str"}}

CoreGroups(x) == {None} \cup Arrays(x.shape, "int64", GroupKeys)

\* shapes of at most two dimensions and MaxSize elements
Shapes ==
    {<<n>> : n \in 0..MaxSize}
    \cup {rc \in (0..MaxSize) \X (0..MaxSize) : rc[1] * rc[2] <= MaxSize}

CallValues == UNION {Arrays(s, "float64", Values("float64")) : s \in Shapes}

CallGroups == {None} \cup UNION {Arrays(s, "int64", GroupKeys) : s \in Shapes}

CallAxes(x) == {<<>>} \cup {<<k>> : k \in 0..(Ndim(x) - 1)}

InitLocals ==
    /\ nan_indexes = None
    /\ sorter = <<>> /\ sorted_a = <<>> /\ sorted_g = <<>>
    /\ flag = <<>> /\ start = <<>> /\ g2inv = <<>>
    /\ result = Unbound

\* grank(a, g, method): a one-dimensional call of the core
InitCore ==
    /\ a \in CoreValues
    /\ g \in CoreGroups(a)
    /\ method \in Methods
    /\ axis = <<>>

\* grank(a, g, method, axis): any call
InitCalls ==
    /\ a \in CallValues
    /\ g \in CallGroups
    /\ method \in Methods \cup {"mode"}
    /\ axis \in CallAxes(a)

InitRest ==
    /\ frame = NoFrame
    /\ pc = "entry"
    /\ trace = <<>>
    /\ InitLocals
    /\ ret = Pending
    /\ args = [a |-> a, g |-> g, method |-> method, axis |-> axis]

Init == InitCore /\ InitRest

InitAny == InitCalls /\ InitRest

\* ------------------------------------------------------------ the actions
\* An exception leaves the running call and the apply_along_axis call around it.
Raise(e, l) ==
    /\ pc' = "done"
    /\ ret' = Raised(e, l)
    /\ frame' = NoFrame

\* return v: to apply_along_axis when the call is made from it, else to the caller
Return(v) ==
    IF frame.active
    THEN pc' = "slice_done" /\ UNCHANGED <<ret, frame>>
    ELSE pc' = "done" /\ ret' = Returned(v) /\ UNCHANGED frame

\* lines 19-24: with an axis, the empty result or the first slice's call
Enter ==
    /\ pc = "entry"
    /\ trace' = Append(trace, "entry")
    /\ IF axis = <<>>
       THEN /\ pc' = "groups"
            /\ UNCHANGED <<a, axis, frame, ret>>
       ELSE IF Size(a) = 0
       THEN /\ pc' = "done"
            /\ ret' = Returned(Array(a.shape, EmptyDtype(method), <<>>))
            /\ UNCHANGED <<a, axis, frame>>
       ELSE /\ frame' = [active |-> TRUE, a |-> a, g |-> g, axis |-> axis[1],
                         k |-> 0, buff |-> <<>>]
            /\ a' = SliceOf(a, axis[1], 0)
            /\ axis' = <<>>
            /\ pc' = "entry"
            /\ UNCHANGED ret
    /\ UNCHANGED <<g, method, args>>
    /\ UNCHANGED locals

\* lines 26-29: the implicit group and the shape assertion
Groups ==
    /\ pc = "groups"
    /\ trace' = Append(trace, "groups")
    /\ g' = GroupsOf(a, g)
    /\ IF SameShape(a, g')
       THEN pc' = "isnan" /\ UNCHANGED <<ret, frame>>
       ELSE Raise("AssertionError", 29)
    /\ UNCHANGED <<a, method, axis, args>>
    /\ UNCHANGED locals

\* lines 31-34: the missing-value detection
DetectNan ==
    /\ pc = "isnan"
    /\ trace' = Append(trace, "isnan")
    /\ nan_indexes' = NanIndexes(a)
    /\ pc' = "partition"
    /\ UNCHANGED <<a, g, method, axis, frame, ret, args>>
    /\ UNCHANGED <<sorter, sorted_a, sorted_g, flag, start, g2inv, result>>

\* lines 37-48: the Group Partitioner.  For an array of more than one
\* dimension sorter holds one argsort per row, a[sorter] indexes the first
\* axis with it (IndexError when an index reaches len(a)) and is of three
\* dimensions, and so is flag, which np.r_[False, flag] cannot concatenate
\* with the scalar (ValueError).
Partition ==
    /\ pc = "partition"
    /\ trace' = Append(trace, "partition")
    /\ sorter' = LexsortLastAxis(a, g)
    /\ IF Ndim(a) = 1
       THEN /\ sorted_a' = Take(a.data, sorter')
            /\ sorted_g' = Take(g.data, sorter')
            /\ flag' = Flag(sorted_g')
            /\ start' = Start(flag', a.shape[1])
            /\ g2inv' = G2inv(sorter', flag')
            /\ pc' = "rank"
            /\ UNCHANGED <<ret, frame>>
       ELSE /\ IF \E k \in 1..Len(sorter') : sorter'[k] >= a.shape[1]
               THEN Raise("IndexError", 38)
               ELSE Raise("ValueError", 46)
            /\ UNCHANGED <<sorted_a, sorted_g, flag, start, g2inv>>
    /\ UNCHANGED <<a, g, method, axis, args, nan_indexes, result>>

\* lines 50-83: the Tie Detector and the Rank Assigner
Rank ==
    /\ pc = "rank"
    /\ trace' = Append(trace, "rank")
    /\ result' = RankOf(method, a.shape[1], sorter, sorted_a, start, g2inv)
    /\ pc' = "patch"
    /\ UNCHANGED <<a, g, method, axis, frame, ret, args>>
    /\ UNCHANGED <<nan_indexes, sorter, sorted_a, sorted_g, flag, start, g2inv>>

\* lines 85-88: the Missing-Value Patcher and the return
Patch ==
    /\ pc = "patch"
    /\ trace' = Append(trace, "patch")
    /\ IF nan_indexes # None
       THEN IF result = Unbound
            THEN Raise("UnboundLocalError", 86) /\ UNCHANGED result
            ELSE result' = Patched(result, nan_indexes) /\ Return(result')
       ELSE IF result = Unbound
            THEN Raise("UnboundLocalError", 88) /\ UNCHANGED result
            ELSE UNCHANGED result /\ Return(result)
    /\ UNCHANGED <<a, g, method, axis, args>>
    /\ UNCHANGED <<nan_indexes, sorter, sorted_a, sorted_g, flag, start, g2inv>>

\* line 24: np.apply_along_axis stores the slice's result and calls grank on
\* the next slice, or returns the assembled array after the last one
NextSlice ==
    /\ pc = "slice_done"
    /\ trace' = Append(trace, "slice_done")
    /\ LET buff == Append(frame.buff, result)
       IN  IF frame.k + 1 < NumSlices(frame.a, frame.axis)
           THEN /\ frame' = [frame EXCEPT !.k = frame.k + 1, !.buff = buff]
                /\ a' = SliceOf(frame.a, frame.axis, frame.k + 1)
                /\ g' = frame.g
                /\ pc' = "entry"
                /\ UNCHANGED ret
           ELSE /\ ret' = Returned(Assemble(frame.a, frame.axis, buff))
                /\ frame' = NoFrame
                /\ pc' = "done"
                /\ UNCHANGED <<a, g>>
    /\ nan_indexes' = None
    /\ sorter' = <<>> /\ sorted_a' = <<>> /\ sorted_g' = <<>>
    /\ flag' = <<>> /\ start' = <<>> /\ g2inv' = <<>>
    /\ result' = Unbound
    /\ UNCHANGED <<method, axis, args>>

\* a call of the core: grank(a, g, method) on one-dimensional values
Next == Enter \/ Groups \/ DetectNan \/ Partition \/ Rank \/ Patch

Spec == Init /\ [][Next]_vars

\* any call: grank(a, g, method, axis), np.apply_along_axis included
NextAny == Enter \/ Groups \/ DetectNan \/ Partition \/ Rank \/ Patch \/ NextSlice

SpecCalls == InitAny /\ [][NextAny]_vars

\* ---------------------------------------------------- reading an outcome
Done == pc = "done"

UnsupportedMethod == args.method \notin Methods

\* A call of the one-dimensional core: no axis, one dimension, a supported
\* method, and groups absent or of the values' length.
CoreCall ==
    /\ args.axis = <<>>
    /\ Ndim(args.a) = 1
    /\ args.method \in Methods
    /\ args.g = None \/ args.g.shape = args.a.shape

N == args.a.shape[1]

\* the value and the group key at position i of the input
A(i) == args.a.data[i]
G(i) == IF args.g = None THEN 0 ELSE args.g.data[i]

Missing(i) == A(i) = NaN
NoMissing == \A i \in 1..N : ~Missing(i)

\* the positions of the group with key k
Members(k) == {i \in 1..N : G(i) = k}

\* twice the number held at position i of array r (a float64 element x is held as 2x)
Twice(r, i) == IF r.dtype = "float64" THEN r.data[i] ELSE 2 * r.data[i]

IsSentinel(r, i) == r.dtype = "float64" /\ r.data[i] = NaN

\* the input with the values at the positions of P rearranged by f
Permuted(x, P, f) ==
    Array(x.shape, x.dtype, [i \in 1..Len(x.data) |-> IF i \in P THEN x.data[f[i]] ELSE x.data[i]])

Bijections(P) == {f \in [P -> P] : \A i, j \in P : f[i] = f[j] => i = j}

\* every input got from x by rearranging the values at the positions of P
Rearranged(x, P) == {Permuted(x, P, f) : f \in Bijections(P)}

\* C1: group independence: rearranging the values at the positions of one
\* group, the group keys kept, leaves the rank at every position outside
\* that group as it was, for each of the five methods.
GroupIndependence ==
    (Done /\ CoreCall) =>
        /\ ret.kind = "return"
        /\ \A P \in {Members(k) : k \in {G(i) : i \in 1..N}} :
             \A x \in Rearranged(args.a, P) :
               \A other \in {Grank(x, args.g, args.method)} :
                  /\ other.kind = "return"
                  /\ \A i \in (1..N) \ P : other.value.data[i] = ret.value.data[i]

\* C1's case: a finished call over two groups, one of them holding two
\* different values
GroupIndependenceWitness ==
    /\ Done /\ CoreCall /\ ret.kind = "return"
    /\ \E i, j, l \in 1..N : G(i) = G(j) /\ A(i) # A(j) /\ G(l) # G(i)

\* C2: without missing values, the min rank of position i is 1 + the number
\* of positions of its group holding a smaller value, and the max rank is the
\* number of positions of its group holding a value not larger.
MinMaxRanks ==
    (Done /\ CoreCall /\ NoMissing /\ args.method \in {"min", "max"}) =>
        /\ ret.kind = "return"
        /\ \A i \in 1..N :
             Twice(ret.value, i) =
                IF args.method = "min"
                THEN 2 * (1 + Cardinality({j \in Members(G(i)) : A(j) < A(i)}))
                ELSE 2 * Cardinality({j \in Members(G(i)) : A(j) <= A(i)})

\* C2's case: a tie within a group, and the same value in another group
MinMaxRanksWitness ==
    /\ Done /\ CoreCall /\ NoMissing /\ args.method \in {"min", "max"}
    /\ ret.kind = "return"
    /\ \E i, j, l \in 1..N : i # j /\ G(i) = G(j) /\ A(i) = A(j) /\ G(l) # G(i) /\ A(l) = A(i)

\* C3: without missing values, the dense rank of position i is the number of
\* distinct values not larger than its own in its group, so the ranks of a
\* group are exactly 1..d, d the number of its distinct values.
DenseRanks ==
    (Done /\ CoreCall /\ NoMissing /\ args.method = "dense") =>
        /\ ret.kind = "return"
        /\ \A i \in 1..N :
             Twice(ret.value, i) = 2 * Cardinality({A(j) : j \in {j \in Members(G(i)) : A(j) <= A(i)}})
        /\ \A i \in 1..N :
             {Twice(ret.value, j) : j \in Members(G(i))}
               = {2 * r : r \in 1..Cardinality({A(j) : j \in Members(G(i))})}

\* C3's case: a group with a tie and a second, larger value
DenseRanksWitness ==
    /\ Done /\ CoreCall /\ NoMissing /\ args.method = "dense"
    /\ ret.kind = "return"
    /\ \E i, j, l \in 1..N : i # j /\ G(i) = G(j) /\ G(j) = G(l) /\ A(i) = A(j) /\ A(i) < A(l)

\* C4: without missing values, the ordinal ranks of a group of m members are
\* 1..m without repeats, ordered by value and, among equal values, by
\* input position.
OrdinalRanks ==
    (Done /\ CoreCall /\ NoMissing /\ args.method = "ordinal") =>
        /\ ret.kind = "return"
        /\ \A i \in 1..N :
             {Twice(ret.value, j) : j \in Members(G(i))}
               = {2 * r : r \in 1..Cardinality(Members(G(i)))}
        /\ \A i, j \in 1..N :
             (G(i) = G(j) /\ (A(i) < A(j) \/ (A(i) = A(j) /\ i < j)))
                => Twice(ret.value, i) < Twice(ret.value, j)

\* C4's case: a group with a tie, its larger value placed first in the input
OrdinalRanksWitness ==
    /\ Done /\ CoreCall /\ NoMissing /\ args.method = "ordinal"
    /\ ret.kind = "return"
    /\ \E i, j, l \in 1..N : i < j /\ j < l /\ G(i) = G(j) /\ G(j) = G(l) /\ A(j) = A(l) /\ A(i) > A(j)

\* C5: average symmetry: at every position twice the average rank is the
\* sum of the min rank and the max rank of the same input (a missing
\* position holds the sentinel under all three methods).
AverageSymmetry ==
    (Done /\ CoreCall /\ args.method = "average") =>
        LET lo == Grank(args.a, args.g, "min")
            hi == Grank(args.a, args.g, "max")
        IN  /\ ret.kind = "return" /\ lo.kind = "return" /\ hi.kind = "return"
            /\ \A i \in 1..N :
                 IF Missing(i)
                 THEN IsSentinel(ret.value, i) /\ IsSentinel(lo.value, i) /\ IsSentinel(hi.value, i)
                 ELSE 2 * Twice(ret.value, i) = Twice(lo.value, i) + Twice(hi.value, i)

\* C5's case: an average rank that is a half-integer (a tie of two)
AverageSymmetryWitness ==
    /\ Done /\ CoreCall /\ args.method = "average" /\ ret.kind = "return"
    /\ \E i \in 1..N : ~Missing(i) /\ Twice(ret.value, i) % 2 = 1

\* the positions whose value is not missing
Present == {i \in 1..N : ~Missing(i)}

\* the position, among those present, of the present position i
PresentIndex(i) == Cardinality({j \in Present : j <= i})

\* the array x without the positions where the values are missing
Kept(x) ==
    LET at(k) == CHOOSE i \in Present : PresentIndex(i) = k
    IN  Array(<<Cardinality(Present)>>, x.dtype, [k \in 1..Cardinality(Present) |-> x.data[at(k)]])

\* C6: missing-value propagation: when a value is missing the result is
\* float64, holds the sentinel at every missing position, and at every other
\* position the rank the position has in the input without its missing
\* elements.
MissingPropagation ==
    (Done /\ CoreCall /\ ~NoMissing) =>
        LET rest == Grank(Kept(args.a), IF args.g = None THEN None ELSE Kept(args.g), args.method)
        IN  /\ ret.kind = "return" /\ rest.kind = "return"
            /\ ret.value.dtype = "float64"
            /\ \A i \in 1..N :
                 IF Missing(i)
                 THEN IsSentinel(ret.value, i)
                 ELSE Twice(ret.value, i) = Twice(rest.value, PresentIndex(i))

\* C6's case: a missing value placed before a present value of its own
\* group, and a second group
MissingPropagationWitness ==
    /\ Done /\ CoreCall /\ ret.kind = "return"
    /\ \E i, j, l \in 1..N : i < j /\ Missing(i) /\ ~Missing(j) /\ G(i) = G(j) /\ G(l) # G(i)

\* C7 as stated: without missing values the result is int64 for ordinal, min,
\* max and dense, and float64 only for average.
ResultKindAsClaimed ==
    (Done /\ CoreCall /\ NoMissing /\ ret.kind = "return") =>
        ret.value.dtype = EmptyDtype(args.method)

GroupsGiven == args.g # None

ShapeMismatch == GroupsGiven /\ args.a.shape # args.g.shape

NoComputation == \A k \in 1..Len(trace) : trace[k] \in {"entry", "groups"}

\* C8 as stated: whenever values and groups are both given and differ in
\* shape the call fails with the shape-mismatch error before any
\* computation, whatever the axis and the size.
ShapeMismatchAsClaimed ==
    (Done /\ ShapeMismatch) =>
        ret.kind = "raise" /\ ret.exc = "AssertionError" /\ NoComputation

\* C8, amended: with axis None a call whose values and groups differ in shape
\* fails with the shape-mismatch error before any computation.  With an axis
\* an empty values array returns an empty array of its shape, and otherwise
\* the call fails with that error, before any computation, when groups are
\* given and differ in shape from a one-dimensional slice along the axis.
ShapeMismatchRejected ==
    Done =>
        /\ (args.axis = <<>> /\ ShapeMismatch)
              => ret = Raised("AssertionError", 29) /\ trace = <<"entry", "groups">>
        /\ (args.axis # <<>> /\ Size(args.a) = 0)
              => ret = Returned(Array(args.a.shape, EmptyDtype(args.method), <<>>))
        /\ (args.axis # <<>> /\ Size(args.a) # 0 /\ GroupsGiven
               /\ args.g.shape # <<args.a.shape[args.axis[1] + 1]>>)
              => ret = Raised("AssertionError", 29) /\ trace = <<"entry", "entry", "groups">>

\* C8's case: a flat call with groups of another shape has failed
ShapeMismatchWitness ==
    /\ Done /\ args.axis = <<>> /\ ShapeMismatch /\ Size(args.a) # 0 /\ Size(args.g) # 0
    /\ ret.kind = "raise"

\* C9 as stated: a call with a method outside the five fails, before the
\* sort, the tie detection or any rank statistic, and never returns.
UnsupportedMethodAsClaimed ==
    (Done /\ UnsupportedMethod) =>
        /\ ret.kind = "raise"
        /\ \A k \in 1..Len(trace) : trace[k] \notin {"partition", "rank"}

\* x.ravel(): the elements of x as one flat sequence
Flat(x) == Array(<<Size(x)>>, x.dtype, x.data)

\* C10 as stated: with axis None an array of two dimensions is ranked as the
\* flat sequence of its elements, the result having the array's shape.
FlatRankingAsClaimed ==
    (Done /\ args.axis = <<>> /\ Ndim(args.a) = 2 /\ args.method \in Methods
          /\ (args.g = None \/ args.g.shape = args.a.shape)) =>
        LET flat == Grank(Flat(args.a), IF args.g = None THEN None ELSE Flat(args.g), args.method)
        IN  /\ ret.kind = "return"
            /\ ret.value.shape = args.a.shape
            /\ ret.value.data = flat.value.data
====
